---- MODULE Spec2Model ----
(***************************************************************************)
(* A model of zed's RpcClient (zed/src/rpc_client.rs): one client, its      *)
(* connection records, the per-connection driver (read loop), the handler  *)
(* registry, and client tasks running request / send / respond /           *)
(* disconnect concurrently.  The peer and the transport are the            *)
(* environment.                                                            *)
(***************************************************************************)
EXTENDS Integers, Sequences, FiniteSets, Bags, TLC

\* ---------------------------------------------------------------- bounds
NumTasks == 2
MaxMessages == 2
MaxInbound == 2
MaxConnections == 1
MaxHandlers == 2

\* ------------------------------------------------------ program constants
HandlerQueueCapacity == 256
PeerFirstId == 1000

\* A u32 (the AtomicU32 counters and every id taken from them) is kept as the
\* 32-bit integer with the same bits, the width of TLC's integers: 0 .. 2^31 - 1
\* are themselves, 2^31 .. 2^32 - 1 are the negative numbers, and u32::MAX
\* (4294967295) is -1.
I32Max == 2147483647
U32Max == -1

Tasks == 1..NumTasks
\* Ids a caller may pass: those add_connection mints, and one it never does.
ConnIds == 0..MaxConnections

\* Option<T>: None is the empty sequence, Some(x) the one-element sequence.
None == <<>>
Some(x) == <<x>>

\* The payload variants of proto::Envelope that the model distinguishes.
Variants == {"Auth", "AuthResponse", "Ping"}
RequestVariants == {"Auth"}
Response(T) == IF T = "Auth" THEN "AuthResponse" ELSE "None"

VARIABLES
    connections,        \* RpcClient.connections: the ids that have a record in the map
    next_connection_id, \* RpcClient.next_connection_id
    handles,            \* the Arc<RpcClient> handles the callers hold
    adding,             \* add_connection futures that await connections.write()
    next_message_id,    \* RpcConnection.next_message_id, per connection
    response_channels,  \* RpcConnection.response_channels: key -> oneshot sender
    writer,             \* RpcConnection.writer: the task holding the mutex, or None
    wire_out,           \* what the write half has put on the transport, in order
    wire_in,            \* envelopes the peer has written and the driver has not read
    peer_next_id,       \* the peer's own envelope id counter
    stream_closed,      \* the transport is broken: writes and reads fail
    driver,             \* the handler_future of each connection
    handler_types,      \* RpcClient.handler_types
    pending_handlers,   \* registrations between handler_types.insert and the push
    message_handlers,   \* RpcClient.message_handlers
    queues,             \* the mpsc queue of each handler slot
    dropped_streams,    \* the slots whose stream (the mpsc receiver) was dropped
    received,           \* the Request<T> and Message<T> values the callers hold
    task,               \* the client tasks: the future each is running
    last,               \* the call that returned most recently, and its result
    log,                \* warnings logged by the drivers
    dispatched,         \* per connection, the id of the envelope dispatched last
    torn,               \* envelopes whose frame was left half written
    panicked            \* a panic!/expect has unwound a future

vars == <<connections, next_connection_id, handles, adding, next_message_id,
          response_channels, writer, wire_out, wire_in, peer_next_id, stream_closed,
          driver, handler_types, pending_handlers, message_handlers, queues,
          dropped_streams, received, task, last, log, dispatched, torn, panicked>>

clientVars == <<connections, next_connection_id, handles, adding>>
recordVars == <<next_message_id, response_channels, writer>>
wireVars == <<wire_out, wire_in, peer_next_id, stream_closed>>
handlerVars == <<handler_types, pending_handlers, message_handlers, queues,
                 dropped_streams, received>>
historyVars == <<log, dispatched, torn>>

\* ------------------------------------------------------------- envelopes
\* T::into_envelope(self, id, responding_to)
IntoEnvelope(payload, id, responding_to) ==
    [id |-> id, responding_to |-> responding_to, payload |-> payload]

\* T::matches_envelope(&envelope)
MatchesEnvelope(T, envelope) == envelope.payload = T

\* T::from_envelope(envelope): the body, when the envelope carries a T.
FromEnvelope(T, envelope) ==
    IF MatchesEnvelope(T, envelope) THEN Some(envelope.payload) ELSE None

\* A task that runs no future.
IdleTask ==
    [pc |-> "idle", op |-> "none", connection_id |-> None, conn |-> None,
     request |-> None, envelope |-> None, mailbox |-> None]

IdleDriver == [pc |-> "none", incoming |-> None, slot |-> 0]

Init ==
    /\ connections = {}
    /\ next_connection_id = 0
    /\ handles = 1
    /\ adding = {}
    /\ next_message_id = [c \in ConnIds |-> 0]
    /\ response_channels = [c \in ConnIds |-> {}]
    /\ writer = [c \in ConnIds |-> None]
    /\ wire_out = [c \in ConnIds |-> <<>>]
    /\ wire_in = [c \in ConnIds |-> <<>>]
    /\ peer_next_id = [c \in ConnIds |-> PeerFirstId]
    /\ stream_closed = [c \in ConnIds |-> FALSE]
    /\ driver = [c \in ConnIds |-> IdleDriver]
    /\ handler_types = {}
    /\ pending_handlers = {}
    /\ message_handlers = <<>>
    /\ queues = <<>>
    /\ dropped_streams = {}
    /\ received = EmptyBag
    /\ task = [t \in Tasks |-> IdleTask]
    /\ last = [op |-> "none", target |-> None, result |-> "none"]
    /\ log = {}
    /\ dispatched = [c \in ConnIds |-> PeerFirstId - 1]
    /\ torn = {}
    /\ panicked = FALSE

\* ------------------------------------------------------------ ownership
\* The callers hold an Arc<RpcClient>: every method is called through one.
HasHandle == handles = 1

\* The Arc<RpcClient> clones alive: the callers' handles, the `this` every
\* running driver captured and the `this` of every request, send or respond
\* future that was created and has not finished.
ClientHolders ==
    handles
    + Cardinality({c \in ConnIds : driver[c].pc \notin {"none", "exited"}})
    + Cardinality({t \in Tasks : task[t].pc # "idle"})

\* The client is freed with its last Arc; that drops the connections map.
ClientDropped == ClientHolders = 0

\* The Arc<RpcConnection> clones alive: the local `connection` of an
\* add_connection that has not inserted it yet, the map's entry, the one the
\* driver's future captured (it uses connection.response_channels), and the
\* local `connection` of every operation in flight.
Holders(c) ==
    (IF c \in adding THEN 1 ELSE 0)
    + (IF c \in connections /\ ~ClientDropped THEN 1 ELSE 0)
    + (IF driver[c].pc \notin {"none", "exited"} THEN 1 ELSE 0)
    + Cardinality({t \in Tasks : task[t].conn = Some(c)})

\* The record is freed with its last Arc; that drops _close_barrier, the writer
\* and every sender left in response_channels.
RecordDropped(c) == c < next_connection_id /\ Holders(c) = 0

\* close_rx.recv() resolves once the barrier's sender is dropped.
CloseSignalled(c) == RecordDropped(c)

\* A lookup that consults the id counter instead of the map: every id handed
\* out so far is found, removed or not.
LookupCreated(c) == IF c < next_connection_id THEN Some(c) ELSE None

\* connections.read().await.get(&connection_id) ... .clone()
Lookup(c) == IF c \in connections THEN Some(c) ELSE None

\* fetch_add(1, SeqCst) on an AtomicU32: the value stored.  The addition wraps:
\* after u32::MAX comes 0 (and after 2^31 - 1 comes 2^31, the least of the
\* negative numbers).
FetchAdd(n) == IF n = I32Max THEN -I32Max - 1 ELSE n + 1

\* A writer that is written through without awaiting the mutex.
WriterNotAwaited(c) == TRUE

\* writer.lock().await: the mutex is free.
WriterFree(c) == writer[c] = None

\* The oneshot sender of a channel whose receiver is gone.
NoReceiver == 0

\* A slip at the call site: the slot is stored under the counter's value after
\* the fetch_add instead of the id the fetch_add returned.
InsertChannelUnderNextId(channels, key, sender) ==
    {e \in channels : e.key # key + 1} \cup {[key |-> key + 1, sender |-> sender]}

\* HashMap::insert and HashMap::remove on response_channels.  An entry is the
\* key and the sender; a sender is named by the task whose request future holds
\* the receiver of its channel, NoReceiver once that future is gone.  An insert
\* under a key the map holds replaces (and drops) the sender that was there.
InsertChannel(channels, key, sender) ==
    {e \in channels : e.key # key} \cup {[key |-> key, sender |-> sender]}

\* A lookup that leaves the entry in the map (get instead of remove).
RemoveChannelKept(channels, key) == channels

RemoveChannel(channels, key) == {e \in channels : e.key # key}

GetChannel(channels, key) == {e.sender : e \in {x \in channels : x.key = key}}

Keys(channels) == {e.key : e \in channels}

\* The receiver `rx` of task t's request future is dropped with the future: the
\* sender that pairs with it, if it is in the map, stays there without receiver.
CloseReceiver(channels, t) ==
    {[key |-> e.key, sender |-> IF e.sender = t THEN NoReceiver ELSE e.sender] :
        e \in channels}

\* response_channels' when the future of task t ends or is dropped.
ReceiverClosed(t) ==
    [c \in ConnIds |->
        IF task[t].op = "request" THEN CloseReceiver(response_channels[c], t)
        ELSE response_channels[c]]

\* The request future with the insert moved after the write.
StepsWriteFirst(op) ==
    IF op = "request" THEN <<"lock", "write", "insert", "recv">>
    ELSE <<"lock", "write">>

\* The order of the awaits of an operation's future, after the lookup and the
\* fetch_add: request inserts its slot, locks the writer, writes, then awaits
\* the slot; send and respond lock and write.
Steps(op) ==
    IF op = "request" THEN <<"insert", "lock", "write", "recv">>
    ELSE <<"lock", "write">>

\* The step after `pc`, "done" after the last one.
NextStep(op, pc) ==
    LET steps == Steps(op)
        i == CHOOSE k \in 1..Len(steps) : steps[k] = pc IN
    IF i = Len(steps) THEN "done" ELSE steps[i + 1]

\* The future of task t moves on to its next await, or returns Ok(()).
Advance(t) ==
    IF NextStep(task[t].op, task[t].pc) = "done" THEN IdleTask
    ELSE [task[t] EXCEPT !.pc = NextStep(task[t].op, task[t].pc)]

Returned(t, result) ==
    [op |-> task[t].op, target |-> task[t].connection_id, result |-> result]

\* last' when task t takes the step Advance(t).
AdvanceLast(t) ==
    IF NextStep(task[t].op, task[t].pc) = "done" THEN Returned(t, "Ok") ELSE last

\* -------------------------------------------------------- client facade
\* add_connection up to its await: the id is taken from the counter and the
\* record is built; the future then awaits connections.write().
AddConnectionBegin ==
    /\ HasHandle
    /\ LET connection_id == next_connection_id IN
        /\ next_connection_id' = FetchAdd(next_connection_id)
        /\ adding' = adding \cup {connection_id}
    /\ UNCHANGED <<connections, handles, recordVars, wireVars, driver, handlerVars,
                   task, last, historyVars, panicked>>

\* add_connection from the write lock on: the record goes into the map, and the
\* id is returned with the driver future, which captures `connection` and a
\* clone of the client.
AddConnectionInsert(connection_id) ==
    /\ connection_id \in adding
    /\ adding' = adding \ {connection_id}
    /\ connections' = connections \cup {connection_id}
    /\ driver' = [driver EXCEPT ![connection_id] =
                    [pc |-> "select", incoming |-> None, slot |-> 0]]
    /\ UNCHANGED <<next_connection_id, handles, recordVars, wireVars, handlerVars,
                   task, last, historyVars, panicked>>

\* The add_connection future is dropped at connections.write().await: the id is
\* spent, the record and the transport it owns are dropped, no driver exists.
DropAddConnection(connection_id) ==
    /\ connection_id \in adding
    /\ adding' = adding \ {connection_id}
    /\ stream_closed' = [stream_closed EXCEPT ![connection_id] = TRUE]
    /\ UNCHANGED <<connections, next_connection_id, handles, recordVars, wire_out,
                   wire_in, peer_next_id, driver, handlerVars, task, last,
                   historyVars, panicked>>

\* connections.write().await.remove(&connection_id)
RemoveConnection(c) == connections \ {c}

Disconnect(t, c) ==
    /\ HasHandle
    /\ task[t].pc = "idle"
    /\ connections' = RemoveConnection(c)
    /\ last' = [op |-> "disconnect", target |-> Some(c), result |-> "Ok"]
    /\ UNCHANGED <<next_connection_id, handles, adding, recordVars, wireVars, driver,
                   handlerVars, task, historyVars, panicked>>

\* The callers drop their last Arc<RpcClient>; no future that borrows it
\* (add_connection, a registration) is pending.  The futures that own a clone
\* (drivers, requests, sends, responds) are not affected.
DropClient ==
    /\ HasHandle
    /\ adding = {}
    /\ pending_handlers = {}
    /\ handles' = 0
    /\ UNCHANGED <<connections, next_connection_id, adding, recordVars, wireVars,
                   driver, handlerVars, task, last, historyVars, panicked>>

\* The call of request / send / respond: the client is cloned into a future
\* that has not run yet.
Call(t, op, c, request) ==
    /\ HasHandle
    /\ task[t].pc = "idle"
    /\ task' = [task EXCEPT ![t] =
                  [pc |-> "called", op |-> op, connection_id |-> Some(c), conn |-> None,
                   request |-> request, envelope |-> None, mailbox |-> None]]

RequestCall(t, c) ==
    /\ Call(t, "request", c, None)
    /\ UNCHANGED <<clientVars, recordVars, wireVars, driver, handlerVars, last,
                   historyVars, panicked>>

SendCall(t, c) ==
    /\ Call(t, "send", c, None)
    /\ UNCHANGED <<clientVars, recordVars, wireVars, driver, handlerVars, last,
                   historyVars, panicked>>

\* respond takes the Request by value: the caller no longer has it.
RespondCall(t, request) ==
    /\ BagIn(request, received)
    /\ "id" \in DOMAIN request
    /\ Call(t, "respond", request.connection_id, Some(request))
    /\ received' = received (-) SetToBag({request})
    /\ UNCHANGED <<clientVars, recordVars, wireVars, driver, handler_types,
                   pending_handlers, message_handlers, queues, dropped_streams, last,
                   historyVars, panicked>>

\* An envelope built as send builds it: it answers nothing.
RespondingToNothing(request) == None

\* response.into_envelope(message_id, Some(request.id))
RespondingTo(request) == Some(request.id)

\* What the future of task t puts in its envelope: the body it was called with
\* and, for respond, the id of the request it answers.
Payload(t) ==
    CASE task[t].op = "request" -> "Auth"
      [] task[t].op = "send" -> "Ping"
      [] OTHER -> Response(task[t].request[1].type)

AnswerTo(t) ==
    IF task[t].op = "respond" THEN RespondingTo(task[t].request[1]) ELSE None

\* The first poll of request / send / respond up to the first lock it awaits:
\* the lookup (failing with "unknown connection") and the fetch_add.
Begin(t, op) ==
    /\ task[t].pc = "called"
    /\ task[t].op = op
    /\ LET c == task[t].connection_id[1] IN
        IF Lookup(c) = None
        THEN /\ last' = Returned(t, "UnknownConnection")
             /\ task' = [task EXCEPT ![t] = IdleTask]
             /\ UNCHANGED next_message_id
        ELSE /\ LET message_id == next_message_id[c] IN
                 /\ next_message_id' = [next_message_id EXCEPT ![c] = FetchAdd(@)]
                 /\ task' = [task EXCEPT ![t] =
                      [@ EXCEPT !.pc = Steps(op)[1],
                                !.conn = Lookup(c),
                                !.envelope =
                                    Some(IntoEnvelope(Payload(t), message_id, AnswerTo(t)))]]
             /\ UNCHANGED last
    /\ UNCHANGED <<clientVars, response_channels, writer, wireVars, driver,
                   handlerVars, historyVars, panicked>>

RequestBegin(t) == Begin(t, "request")

SendBegin(t) == Begin(t, "send")

RespondBegin(t) == Begin(t, "respond")

\* response_channels.lock().await.insert(message_id, tx)
RequestInsert(t) ==
    /\ task[t].pc = "insert"
    /\ LET c == task[t].conn[1]
           message_id == task[t].envelope[1].id IN
        response_channels' = [response_channels EXCEPT ![c] =
                                InsertChannel(@, message_id, t)]
    /\ task' = [task EXCEPT ![t] = Advance(t)]
    /\ last' = AdvanceLast(t)
    /\ UNCHANGED <<clientVars, next_message_id, writer, wireVars, driver,
                   handlerVars, historyVars, panicked>>

\* A write whose error is thrown away instead of returned with `?`.
WriteResultIgnored(c) == "Ok"

\* What write_message returns on the transport of c: Ok, or the io::Error of a
\* broken stream, which `?` returns from the operation.
WriteResult(c) == IF stream_closed[c] THEN "BrokenPipe" ELSE "Ok"

\* writer.lock().await, then write_message starts: the frame's first part goes
\* out, or the transport refuses it and `?` returns the error.
WriteBegin(t) ==
    /\ task[t].pc = "lock"
    /\ LET c == task[t].conn[1] IN
        /\ WriterFree(c)
        /\ IF WriteResult(c) # "Ok"
           THEN /\ task' = [task EXCEPT ![t] = IdleTask]
                /\ last' = Returned(t, WriteResult(c))
                /\ response_channels' = ReceiverClosed(t)
                /\ UNCHANGED <<writer, wire_out>>
           ELSE /\ writer' = [writer EXCEPT ![c] = Some(t)]
                /\ wire_out' = [wire_out EXCEPT ![c] =
                      Append(@, [part |-> "head", envelope |-> task[t].envelope[1]])]
                /\ task' = [task EXCEPT ![t].pc = "write"]
                /\ UNCHANGED <<last, response_channels>>
    /\ UNCHANGED <<clientVars, next_message_id, wire_in, peer_next_id, stream_closed,
                   driver, handlerVars, historyVars, panicked>>

\* write_message completes (the rest of the frame goes out) or fails; the guard
\* is dropped at the end of the statement.
WriteFinish(t) ==
    /\ task[t].pc = "write"
    /\ LET c == task[t].conn[1] IN
        /\ writer' = [writer EXCEPT ![c] = None]
        /\ IF WriteResult(c) # "Ok"
           THEN /\ task' = [task EXCEPT ![t] = IdleTask]
                /\ last' = Returned(t, WriteResult(c))
                /\ torn' = torn \cup {<<c, task[t].envelope[1].id>>}
                /\ response_channels' = ReceiverClosed(t)
                /\ UNCHANGED wire_out
           ELSE /\ wire_out' = [wire_out EXCEPT ![c] =
                      Append(@, [part |-> "tail", envelope |-> task[t].envelope[1]])]
                /\ task' = [task EXCEPT ![t] = Advance(t)]
                /\ last' = AdvanceLast(t)
                /\ UNCHANGED <<torn, response_channels>>
    /\ UNCHANGED <<clientVars, next_message_id, wire_in, peer_next_id, stream_closed,
                   driver, handlerVars, log, dispatched, panicked>>

\* The oneshot sender of this request was dropped and sent nothing: the record
\* was freed, or the entry was taken out of the map or replaced.
SenderDropped(t) ==
    LET c == task[t].conn[1] IN
    /\ task[t].mailbox = None
    /\ \/ RecordDropped(c)
       \/ \A e \in response_channels[c] : e.sender # t

\* rx.recv().await.expect(..), then T::Response::from_envelope(response).  The
\* panic of expect unwinds this future only.
RequestRecv(t) ==
    /\ task[t].pc = "recv"
    /\ task[t].mailbox # None \/ SenderDropped(t)
    /\ IF task[t].mailbox = None
       THEN /\ panicked' = TRUE
            /\ last' = Returned(t, "Panic")
       ELSE /\ last' = Returned(t,
                  IF FromEnvelope(Response("Auth"), task[t].mailbox[1]) = None
                  THEN "ProtocolMismatch" ELSE "Ok")
            /\ UNCHANGED panicked
    /\ task' = [task EXCEPT ![t] = IdleTask]
    /\ UNCHANGED <<clientVars, recordVars, wireVars, driver, handlerVars, historyVars>>

\* A guard that outlives the future that held it.
GuardLeaked(t, c) == writer[c]

\* Dropping the future drops a MutexGuard it holds.
GuardAfterDrop(t, c) == IF writer[c] = Some(t) THEN None ELSE writer[c]

\* The caller drops the future of a request, send or respond, before its first
\* poll or at one of its awaits: its Arcs, the guard it holds, the receiver of
\* a request and the Request of a respond are dropped with it.  A frame whose
\* write had begun stays on the wire half written.
DropFuture(t) ==
    /\ task[t].pc # "idle"
    /\ writer' = [c \in ConnIds |-> GuardAfterDrop(t, c)]
    /\ torn' = IF task[t].pc = "write"
               THEN torn \cup {<<task[t].conn[1], task[t].envelope[1].id>>} ELSE torn
    /\ response_channels' = ReceiverClosed(t)
    /\ task' = [task EXCEPT ![t] = IdleTask]
    /\ last' = Returned(t, "Dropped")
    /\ UNCHANGED <<clientVars, next_message_id, wireVars, driver, handlerVars, log,
                   dispatched, panicked>>

DropRequest(t) == task[t].op = "request" /\ DropFuture(t)

DropSend(t) == task[t].op \in {"send", "respond"} /\ DropFuture(t)

\* A filter closure that leaves out the matches_envelope test: it takes every
\* envelope it is offered.
HandlerTakesAny(T, envelope, connection_id) ==
    IF envelope # None
    THEN Some([id |-> envelope[1].id, connection_id |-> connection_id,
               body |-> envelope[1]])
    ELSE None

\* ---------------------------------------------------- handler registry
\* The filter closure of a handler slot registered for T: on a match it takes
\* the envelope out of the option and returns the ErasedMessage.
Handler(T, envelope, connection_id) ==
    IF envelope # None /\ MatchesEnvelope(T, envelope[1])
    THEN Some([id |-> envelope[1].id, connection_id |-> connection_id,
               body |-> envelope[1]])
    ELSE None

\* A registration that does not look at what handler_types.insert returns.
RegisterTypeUnchecked(T, kind) ==
    /\ handler_types' = handler_types \cup {T}
    /\ pending_handlers' = pending_handlers \cup {[type |-> T, kind |-> kind]}
    /\ UNCHANGED <<clientVars, recordVars, wireVars, driver, message_handlers,
                   queues, dropped_streams, received, task, last, historyVars,
                   panicked>>

\* handler_types.lock().await.insert(TypeId::of::<T>()), panicking on a
\* duplicate; the panic unwinds the registration and nothing else.
RegisterType(T, kind) ==
    /\ IF T \in handler_types
       THEN /\ panicked' = TRUE
            /\ UNCHANGED <<handler_types, pending_handlers>>
       ELSE /\ handler_types' = handler_types \cup {T}
            /\ pending_handlers' = pending_handlers \cup {[type |-> T, kind |-> kind]}
            /\ UNCHANGED panicked
    /\ UNCHANGED <<clientVars, recordVars, wireVars, driver, message_handlers,
                   queues, dropped_streams, received, task, last, historyVars>>

AddRequestHandler(T) == HasHandle /\ T \in RequestVariants /\ RegisterType(T, "request")

AddMessageHandler(T) == HasHandle /\ RegisterType(T, "message")

\* A driver holds message_handlers.read() from the walk to the end of the send.
ReadLocked == \E c \in ConnIds : driver[c].pc = "send"

\* message_handlers.write().await.push((tx, filter)); the receiver is returned.
PushHandler(h) ==
    /\ h \in pending_handlers
    /\ ~ReadLocked
    /\ pending_handlers' = pending_handlers \ {h}
    /\ message_handlers' = Append(message_handlers, h)
    /\ queues' = Append(queues, <<>>)
    /\ UNCHANGED <<clientVars, recordVars, wireVars, driver, handler_types,
                   dropped_streams, received, task, last, historyVars, panicked>>

\* The registration future is dropped at message_handlers.write().await: the
\* type stays in handler_types, the channel is dropped and no slot is pushed.
DropRegistration(h) ==
    /\ h \in pending_handlers
    /\ pending_handlers' = pending_handlers \ {h}
    /\ UNCHANGED <<clientVars, recordVars, wireVars, driver, handler_types,
                   message_handlers, queues, dropped_streams, received, task, last,
                   historyVars, panicked>>

\* Request::from(ErasedMessage): the view keeps the envelope's id and takes the
\* body out of the envelope.
RequestFrom(T, message) ==
    [id |-> message.id, connection_id |-> message.connection_id,
     body |-> FromEnvelope(T, message.body), type |-> T]

\* Message::from(ErasedMessage): a Message has no id.
MessageFrom(T, message) ==
    [connection_id |-> message.connection_id,
     body |-> FromEnvelope(T, message.body), type |-> T]

\* What the stream of slot i yields for a queued message: rx.map(Request::from)
\* for a request handler, rx.map(Message::from) for a message handler.
StreamItem(i, message) ==
    IF message_handlers[i].kind = "request"
    THEN RequestFrom(message_handlers[i].type, message)
    ELSE MessageFrom(message_handlers[i].type, message)

\* The registering caller polls its stream and gets the next item.
ConsumeHandler(i) ==
    /\ i \in 1..Len(queues)
    /\ i \notin dropped_streams
    /\ queues[i] # <<>>
    /\ received' = received (+) SetToBag({StreamItem(i, Head(queues[i]))})
    /\ queues' = [queues EXCEPT ![i] = Tail(@)]
    /\ UNCHANGED <<clientVars, recordVars, wireVars, driver, handler_types,
                   pending_handlers, message_handlers, dropped_streams, task, last,
                   historyVars, panicked>>

\* The caller drops the stream a registration returned: the receiver of the
\* slot's channel is gone, its sender stays in message_handlers.
DropStream(i) ==
    /\ i \in 1..Len(queues)
    /\ i \notin dropped_streams
    /\ dropped_streams' = dropped_streams \cup {i}
    /\ UNCHANGED <<clientVars, recordVars, wireVars, driver, handler_types,
                   pending_handlers, message_handlers, queues, received, task, last,
                   historyVars, panicked>>

\* Request::body / Message::body: self.body.take().expect("body already taken").
\* The first call takes the body out of the value, a second one panics.
Body(value) ==
    /\ BagIn(value, received)
    /\ IF value.body = None
       THEN /\ panicked' = TRUE
            /\ UNCHANGED received
       ELSE /\ received' = (received (-) SetToBag({value}))
                              (+) SetToBag({[value EXCEPT !.body = None]})
            /\ UNCHANGED panicked
    /\ UNCHANGED <<clientVars, recordVars, wireVars, driver, handler_types,
                   pending_handlers, message_handlers, queues, dropped_streams, task,
                   last, historyVars>>

\* ------------------------------------------------------------ read loop
\* A frame of the inbound stream that read_message decodes into an envelope.
InvalidFrame == [id |-> 0, responding_to |-> None, payload |-> "Invalid"]
Decodes(frame) == frame.payload # "Invalid"

\* A read loop that gives up at the first read error.
ExitAfterReadError(d) == [pc |-> "exited", incoming |-> None, slot |-> 0]

\* Either::Left((Err(error), _)) => log::warn!(..): the loop goes round again.
AfterReadError(d) == d

\* The branches select(read_message, closed) can return: a read result when the
\* stream has one, the close branch once the close signal has fired.
SelectReady(c) ==
    (IF wire_in[c] # <<>> /\ Decodes(Head(wire_in[c])) THEN {"message"} ELSE {})
    \cup (IF wire_in[c] # <<>> /\ ~Decodes(Head(wire_in[c])) THEN {"error"} ELSE {})
    \cup (IF wire_in[c] = <<>> /\ stream_closed[c] THEN {"error"} ELSE {})
    \cup (IF CloseSignalled(c) THEN {"closed"} ELSE {})

\* stream.read_message(): the next envelope of the stream, and the stream left.
ReadMessage(stream) == [message |-> Head(stream), rest |-> Tail(stream)]

DriverSelect(c) ==
    /\ driver[c].pc = "select"
    /\ \E branch \in SelectReady(c) :
        LET incoming == ReadMessage(wire_in[c]).message IN
        /\ driver' = [driver EXCEPT ![c] =
             CASE branch = "message" ->
                    [pc |-> IF incoming.responding_to # None
                            THEN "response" ELSE "handlers",
                     incoming |-> Some(incoming), slot |-> 0]
               [] branch = "error" -> AfterReadError(@)
               [] OTHER -> [pc |-> "exited", incoming |-> None, slot |-> 0]]
        /\ wire_in' = [wire_in EXCEPT ![c] =
                         IF branch = "message" \/ (branch = "error" /\ @ # <<>>)
                         THEN ReadMessage(@).rest ELSE @]
        /\ log' = IF branch = "error"
                  THEN log \cup {[warning |-> "invalid message", connection |-> c,
                                  id |-> 0]}
                  ELSE log
    /\ UNCHANGED <<clientVars, recordVars, wire_out, peer_next_id, stream_closed,
                   handlerVars, task, last, dispatched, torn, panicked>>

\* The request futures that hold the receiver of `sender`'s channel.
Receivers(c, sender) ==
    {t \in Tasks : /\ t = sender
                   /\ task[t].op = "request"
                   /\ task[t].conn = Some(c)}

\* The key the read loop looks the sender up under.
ResponseKey(incoming) == incoming.responding_to[1]

\* The response branch: take the sender out of the map and send into it, or
\* warn.  A send into a channel without receiver fails and is ignored.
DriverResponse(c) ==
    /\ driver[c].pc = "response"
    /\ LET incoming == driver[c].incoming[1]
           channel == GetChannel(response_channels[c], ResponseKey(incoming)) IN
        /\ response_channels' = [response_channels EXCEPT ![c] =
                                    RemoveChannel(@, ResponseKey(incoming))]
        /\ IF channel # {}
           THEN /\ task' = [t \in Tasks |->
                      IF \E tx \in channel : t \in Receivers(c, tx)
                      THEN [task[t] EXCEPT !.mailbox = Some(incoming)]
                      ELSE task[t]]
                /\ UNCHANGED log
           ELSE /\ log' = log \cup {[warning |-> "unknown request", connection |-> c,
                                     id |-> incoming.id]}
                /\ UNCHANGED task
        /\ dispatched' = [dispatched EXCEPT ![c] = incoming.id]
    /\ driver' = [driver EXCEPT ![c] = [pc |-> "select", incoming |-> None, slot |-> 0]]
    /\ UNCHANGED <<clientVars, next_message_id, writer, wireVars, handlerVars,
                   last, torn, panicked>>

\* for (tx, handler) in message_handlers.read().await.iter(): the index of the
\* first slot, from i on, whose filter returns a message; 0 when none does.
RECURSIVE WalkHandlers(_, _, _)
WalkHandlers(i, envelope, c) ==
    IF i > Len(message_handlers) THEN 0
    ELSE IF Handler(message_handlers[i].type, envelope, c) # None THEN i
    ELSE WalkHandlers(i + 1, envelope, c)

\* The handler branch up to the send: walk the slots under the read lock.
DriverHandlers(c) ==
    /\ driver[c].pc = "handlers"
    /\ LET slot == WalkHandlers(1, driver[c].incoming, c) IN
        IF slot = 0
        THEN /\ log' = log \cup {[warning |-> "unhandled message", connection |-> c,
                                  id |-> driver[c].incoming[1].id]}
             /\ driver' = [driver EXCEPT ![c] =
                             [pc |-> "select", incoming |-> None, slot |-> 0]]
             /\ dispatched' = [dispatched EXCEPT ![c] = driver[c].incoming[1].id]
        ELSE /\ driver' = [driver EXCEPT ![c].pc = "send", ![c].slot = slot]
             /\ UNCHANGED <<log, dispatched>>
    /\ UNCHANGED <<clientVars, recordVars, wireVars, handlerVars, task, last,
                   torn, panicked>>

\* A channel without a bound.
QueueUnbounded(queue) == TRUE

\* mpsc::channel(256): a send completes only while the queue holds fewer than
\* its capacity.
QueueHasRoom(queue) == Len(queue) < HandlerQueueCapacity

\* A queue that hands out the newest message first.
QueueSendFront(queue, message) == <<message>> \o queue

\* tx.send(message) on the mpsc channel of a slot: first in, first out.
QueueSend(queue, message) == Append(queue, message)

\* let _ = tx.clone().send(message).await: waits while the queue is full; fails
\* at once, the message lost and the error ignored, when the stream was dropped.
DriverSend(c) ==
    /\ driver[c].pc = "send"
    /\ LET slot == driver[c].slot
           message == Handler(message_handlers[slot].type, driver[c].incoming, c)[1] IN
        /\ IF slot \in dropped_streams
           THEN UNCHANGED queues
           ELSE /\ QueueHasRoom(queues[slot])
                /\ queues' = [queues EXCEPT ![slot] = QueueSend(@, message)]
        /\ dispatched' = [dispatched EXCEPT ![c] = message.id]
    /\ driver' = [driver EXCEPT ![c] = [pc |-> "select", incoming |-> None, slot |-> 0]]
    /\ UNCHANGED <<clientVars, recordVars, wireVars, handler_types, pending_handlers,
                   message_handlers, dropped_streams, received, task, last, log, torn,
                   panicked>>

\* ---------------------------------------------------------- environment
\* The peer writes one envelope: a response (to any id, outstanding or not) or
\* a message of its own.
PeerSend(c, responding_to, payload) ==
    /\ c < next_connection_id
    /\ ~stream_closed[c]
    /\ wire_in' = [wire_in EXCEPT ![c] =
                     Append(@, IntoEnvelope(payload, peer_next_id[c], responding_to))]
    /\ peer_next_id' = [peer_next_id EXCEPT ![c] = @ + 1]
    /\ UNCHANGED <<clientVars, recordVars, wire_out, stream_closed, driver,
                   handlerVars, task, last, historyVars, panicked>>

\* The peer writes a frame that does not decode; the frames after it do.
PeerSendInvalid(c) ==
    /\ c < next_connection_id
    /\ ~stream_closed[c]
    /\ wire_in' = [wire_in EXCEPT ![c] = Append(@, InvalidFrame)]
    /\ UNCHANGED <<clientVars, recordVars, wire_out, peer_next_id, stream_closed,
                   driver, handlerVars, task, last, historyVars, panicked>>

\* The transport breaks (the peer hangs up): later writes and reads fail.
StreamClose(c) ==
    /\ c < next_connection_id
    /\ ~stream_closed[c]
    /\ stream_closed' = [stream_closed EXCEPT ![c] = TRUE]
    /\ UNCHANGED <<clientVars, recordVars, wire_out, wire_in, peer_next_id, driver,
                   handlerVars, task, last, historyVars, panicked>>

\* ------------------------------------------------------- specifications
\* The bounds of the model: how many connections are added, ids allocated per
\* connection, envelopes the peer writes and handler types registered.
MayAddConnection == next_connection_id < MaxConnections
MayAllocate(c) == c \in connections => next_message_id[c] < MaxMessages
MayBegin(t) == task[t].pc = "called" /\ MayAllocate(task[t].connection_id[1])
MayRegister(T) == T \in handler_types \/ Cardinality(handler_types) < MaxHandlers
MayPeerSend(c) == peer_next_id[c] < PeerFirstId + MaxInbound

\* What the peer writes: a response to any id (issued or not), or a message.
PeerResponses == {<<Some(id), "AuthResponse">> : id \in 0..MaxMessages}
PeerMessages == {<<None, T>> : T \in {"Auth", "Ping"}}

\* The ids add_connection mints within the bound.
MintedIds == 0..(MaxConnections - 1)

\* The outbound side: tasks run request, send and disconnect concurrently on the
\* connections, the peer answers, the drivers deliver the responses.
Next ==
    \/ MayAddConnection /\ AddConnectionBegin
    \/ \E c \in ConnIds : AddConnectionInsert(c)
    \/ \E t \in Tasks, c \in MintedIds : Disconnect(t, c)
    \/ \E t \in Tasks, c \in MintedIds : MayAllocate(c) /\ RequestCall(t, c)
    \/ \E t \in Tasks, c \in MintedIds : MayAllocate(c) /\ SendCall(t, c)
    \/ \E t \in Tasks : MayBegin(t) /\ RequestBegin(t)
    \/ \E t \in Tasks : MayBegin(t) /\ SendBegin(t)
    \/ \E t \in Tasks : RequestInsert(t)
    \/ \E t \in Tasks : WriteBegin(t)
    \/ \E t \in Tasks : WriteFinish(t)
    \/ \E t \in Tasks : RequestRecv(t)
    \/ \E t \in Tasks : DropRequest(t)
    \/ \E t \in Tasks : DropSend(t)
    \/ \E c \in ConnIds : DriverSelect(c)
    \/ \E c \in ConnIds : DriverResponse(c)
    \/ \E c \in ConnIds, e \in PeerResponses : MayPeerSend(c) /\ PeerSend(c, e[1], e[2])
    \/ \E c \in ConnIds : StreamClose(c)

Spec == Init /\ [][Next]_vars

\* The handler registry: handlers are registered while the peer writes messages
\* and the drivers dispatch them; the registering callers consume their streams
\* or drop them.
NextHandlers ==
    \/ MayAddConnection /\ AddConnectionBegin
    \/ \E c \in ConnIds : AddConnectionInsert(c)
    \/ \E c \in ConnIds : DropAddConnection(c)
    \/ \E T \in Variants : MayRegister(T) /\ AddRequestHandler(T)
    \/ \E T \in Variants : MayRegister(T) /\ AddMessageHandler(T)
    \/ \E h \in pending_handlers : PushHandler(h)
    \/ \E h \in pending_handlers : DropRegistration(h)
    \/ \E i \in 1..Len(queues) : ConsumeHandler(i)
    \/ \E i \in 1..Len(queues) : DropStream(i)
    \/ \E c \in ConnIds : DriverSelect(c)
    \/ \E c \in ConnIds : DriverHandlers(c)
    \/ \E c \in ConnIds : DriverSend(c)
    \/ \E c \in ConnIds, e \in {<<None, T>> : T \in Variants} :
         MayPeerSend(c) /\ PeerSend(c, e[1], e[2])

SpecHandlers == Init /\ [][NextHandlers]_vars

\* The inbound side: one task runs the client's operations (respond among them)
\* while the peer writes requests, messages and responses; at most one handler
\* type is registered.
OneTask == {1}
MayRegisterOne(T) == T \in handler_types \/ handler_types = {}
Requests == {v \in BagToSet(received) : "id" \in DOMAIN v}

NextInbound ==
    \/ MayAddConnection /\ AddConnectionBegin
    \/ \E c \in ConnIds : AddConnectionInsert(c)
    \/ \E t \in OneTask, c \in ConnIds : Disconnect(t, c)
    \/ \E t \in OneTask, c \in ConnIds : MayAllocate(c) /\ RequestCall(t, c)
    \/ \E t \in OneTask, c \in ConnIds : MayAllocate(c) /\ SendCall(t, c)
    \/ \E t \in OneTask, request \in Requests :
         MayAllocate(request.connection_id) /\ RespondCall(t, request)
    \/ \E t \in OneTask : MayBegin(t) /\ RequestBegin(t)
    \/ \E t \in OneTask : MayBegin(t) /\ SendBegin(t)
    \/ \E t \in OneTask : MayBegin(t) /\ RespondBegin(t)
    \/ \E t \in OneTask : RequestInsert(t)
    \/ \E t \in OneTask : WriteBegin(t)
    \/ \E t \in OneTask : WriteFinish(t)
    \/ \E t \in OneTask : RequestRecv(t)
    \/ \E T \in {"Auth"} : MayRegisterOne(T) /\ AddRequestHandler(T)
    \/ \E T \in {"Ping"} : MayRegisterOne(T) /\ AddMessageHandler(T)
    \/ \E h \in pending_handlers : PushHandler(h)
    \/ \E i \in 1..Len(queues) : ConsumeHandler(i)
    \/ \E c \in ConnIds : DriverSelect(c)
    \/ \E c \in ConnIds : DriverResponse(c)
    \/ \E c \in ConnIds : DriverHandlers(c)
    \/ \E c \in ConnIds : DriverSend(c)
    \/ \E c \in ConnIds, e \in PeerResponses \cup PeerMessages :
         MayPeerSend(c) /\ PeerSend(c, e[1], e[2])

SpecInbound == Init /\ [][NextInbound]_vars

\* The responding side: the peer sends requests on two connections, a request
\* handler is registered, and two tasks take the bodies of the requests
\* received and respond to them.
RespondConnections == MaxConnections + 1

NextRespond ==
    \/ next_connection_id < RespondConnections /\ AddConnectionBegin
    \/ \E c \in ConnIds : AddConnectionInsert(c)
    \/ \E T \in RequestVariants : T \notin handler_types /\ AddRequestHandler(T)
    \/ \E h \in pending_handlers : PushHandler(h)
    \/ \E i \in 1..Len(queues) : ConsumeHandler(i)
    \/ \E request \in Requests : Body(request)
    \/ \E c \in ConnIds : DriverSelect(c)
    \/ \E c \in ConnIds : DriverHandlers(c)
    \/ \E c \in ConnIds : DriverSend(c)
    \/ \E c \in ConnIds : MayPeerSend(c) /\ PeerSend(c, None, "Auth")
    \/ \E t \in Tasks, request \in Requests :
         MayAllocate(request.connection_id) /\ RespondCall(t, request)
    \/ \E t \in Tasks : MayBegin(t) /\ RespondBegin(t)
    \/ \E t \in Tasks : WriteBegin(t)
    \/ \E t \in Tasks : WriteFinish(t)

SpecRespond == Init /\ [][NextRespond]_vars

\* The client's end of life: callers add connections and issue requests while
\* they hold a handle, then drop the last handle with drivers and requests
\* still running.
NextDrop ==
    \/ MayAddConnection /\ AddConnectionBegin
    \/ \E c \in ConnIds : AddConnectionInsert(c)
    \/ \E t \in Tasks, c \in ConnIds : MayAllocate(c) /\ RequestCall(t, c)
    \/ \E t \in Tasks : MayBegin(t) /\ RequestBegin(t)
    \/ \E t \in Tasks : RequestInsert(t)
    \/ \E t \in Tasks : WriteBegin(t)
    \/ \E t \in Tasks : WriteFinish(t)
    \/ \E t \in Tasks : RequestRecv(t)
    \/ DropClient
    \/ \E c \in ConnIds : DriverSelect(c)
    \/ \E c \in ConnIds : DriverResponse(c)
    \/ \E c \in ConnIds, e \in PeerResponses : MayPeerSend(c) /\ PeerSend(c, e[1], e[2])

SpecDrop == Init /\ [][NextDrop]_vars

\* Id allocation: on one connection two tasks run request, send and respond
\* concurrently (a request handler feeds respond); futures end by being dropped.
IdsPerConnection == MaxMessages + 1
MayAllocateId(c) == c \in connections => next_message_id[c] < IdsPerConnection
MayBeginId(t) == task[t].pc = "called" /\ MayAllocateId(task[t].connection_id[1])

NextIds ==
    \/ MayAddConnection /\ AddConnectionBegin
    \/ \E c \in ConnIds : AddConnectionInsert(c)
    \/ \E T \in RequestVariants : T \notin handler_types /\ AddRequestHandler(T)
    \/ \E h \in pending_handlers : PushHandler(h)
    \/ \E i \in 1..Len(queues) : ConsumeHandler(i)
    \/ \E c \in ConnIds : DriverSelect(c)
    \/ \E c \in ConnIds : DriverHandlers(c)
    \/ \E c \in ConnIds : DriverSend(c)
    \/ \E c \in ConnIds : MayPeerSend(c) /\ PeerSend(c, None, "Auth")
    \/ \E t \in Tasks, c \in connections : MayAllocateId(c) /\ RequestCall(t, c)
    \/ \E t \in Tasks, c \in connections : MayAllocateId(c) /\ SendCall(t, c)
    \/ \E t \in Tasks, request \in Requests :
         MayAllocateId(request.connection_id) /\ RespondCall(t, request)
    \/ \E t \in Tasks : MayBeginId(t) /\ RequestBegin(t)
    \/ \E t \in Tasks : MayBeginId(t) /\ SendBegin(t)
    \/ \E t \in Tasks : MayBeginId(t) /\ RespondBegin(t)
    \/ \E t \in Tasks : RequestInsert(t)
    \/ \E t \in Tasks : WriteBegin(t)
    \/ \E t \in Tasks : WriteFinish(t)
    \/ \E t \in Tasks : DropRequest(t)
    \/ \E t \in Tasks : DropSend(t)

SpecIds == Init /\ [][NextIds]_vars

\* Backpressure: one message handler, a peer that keeps writing once the
\* handler is registered (the transport buffers a few envelopes), and a
\* consumer that takes only a few messages and may drop its stream.
QueueInbound == HandlerQueueCapacity + MaxInbound
MayConsume == BagCardinality(received) < MaxInbound
MayPeerFill(c) ==
    /\ Len(message_handlers) > 0
    /\ peer_next_id[c] < PeerFirstId + QueueInbound
    /\ Len(wire_in[c]) < MaxInbound

NextQueue ==
    \/ MayAddConnection /\ AddConnectionBegin
    \/ \E c \in ConnIds : AddConnectionInsert(c)
    \/ \E T \in {"Ping"} : T \notin handler_types /\ AddMessageHandler(T)
    \/ \E h \in pending_handlers : PushHandler(h)
    \/ \E i \in 1..Len(queues) : MayConsume /\ ConsumeHandler(i)
    \/ \E i \in 1..Len(queues) : DropStream(i)
    \/ \E c \in ConnIds : DriverSelect(c)
    \/ \E c \in ConnIds : DriverHandlers(c)
    \/ \E c \in ConnIds : DriverSend(c)
    \/ \E c \in ConnIds : MayPeerFill(c) /\ PeerSend(c, None, "Ping")

SpecQueue == Init /\ [][NextQueue]_vars

\* Read errors: on two connections the peer mixes frames that do not decode
\* into a stream of messages for a registered handler.
MayPeerSendInvalid(c) ==
    /\ Len(wire_in[c]) < MaxInbound
    /\ \A k \in 1..Len(wire_in[c]) : Decodes(wire_in[c][k])

NextReadError ==
    \/ next_connection_id < RespondConnections /\ AddConnectionBegin
    \/ \E c \in ConnIds : AddConnectionInsert(c)
    \/ \E T \in {"Ping"} : T \notin handler_types /\ AddMessageHandler(T)
    \/ \E h \in pending_handlers : PushHandler(h)
    \/ \E i \in 1..Len(queues) : ConsumeHandler(i)
    \/ \E c \in ConnIds : DriverSelect(c)
    \/ \E c \in ConnIds : DriverHandlers(c)
    \/ \E c \in ConnIds : DriverSend(c)
    \/ \E c \in ConnIds, T \in {"Ping", "Auth"} : MayPeerSend(c) /\ PeerSend(c, None, T)
    \/ \E c \in ConnIds : MayPeerSendInvalid(c) /\ PeerSendInvalid(c)

SpecReadError == Init /\ [][NextReadError]_vars

\* Registration under load: a message handler is registered and its queue fills
\* up (the consumer takes only a few messages); a request handler for another
\* type is registered at any moment after it.
NextRegistry ==
    \/ MayAddConnection /\ AddConnectionBegin
    \/ \E c \in ConnIds : AddConnectionInsert(c)
    \/ \E T \in {"Ping"} : handler_types = {} /\ AddMessageHandler(T)
    \/ \E T \in RequestVariants :
         Len(message_handlers) > 0 /\ T \notin handler_types /\ AddRequestHandler(T)
    \/ \E h \in pending_handlers : PushHandler(h)
    \/ \E i \in {1} : Len(queues) > 0 /\ MayConsume /\ ConsumeHandler(i)
    \/ \E c \in ConnIds : DriverSelect(c)
    \/ \E c \in ConnIds : DriverHandlers(c)
    \/ \E c \in ConnIds : DriverSend(c)
    \/ \E c \in ConnIds : MayPeerFill(c) /\ PeerSend(c, None, "Ping")

SpecRegistry == Init /\ [][NextRegistry]_vars

\* The frame of an envelope on the wire, written in two parts.
Frame(envelope) ==
    <<[part |-> "head", envelope |-> envelope], [part |-> "tail", envelope |-> envelope]>>

\* A connection late in its life: the request that took id 0 still awaits its
\* response (task 1), and every id after it, up to u32::MAX - 1, went to an
\* operation that has completed.  Of what was written, wire_out keeps the
\* request's frame.
InitWrap ==
    /\ connections = {0}
    /\ next_connection_id = 1
    /\ handles = 1
    /\ adding = {}
    /\ next_message_id = [c \in ConnIds |-> IF c = 0 THEN U32Max ELSE 0]
    /\ response_channels = [c \in ConnIds |->
                              IF c = 0 THEN {[key |-> 0, sender |-> 1]} ELSE {}]
    /\ writer = [c \in ConnIds |-> None]
    /\ wire_out = [c \in ConnIds |->
                     IF c = 0 THEN Frame(IntoEnvelope("Auth", 0, None)) ELSE <<>>]
    /\ wire_in = [c \in ConnIds |-> <<>>]
    /\ peer_next_id = [c \in ConnIds |-> PeerFirstId]
    /\ stream_closed = [c \in ConnIds |-> FALSE]
    /\ driver = [c \in ConnIds |->
                   IF c = 0 THEN [pc |-> "select", incoming |-> None, slot |-> 0]
                   ELSE IdleDriver]
    /\ handler_types = {}
    /\ pending_handlers = {}
    /\ message_handlers = <<>>
    /\ queues = <<>>
    /\ dropped_streams = {}
    /\ received = EmptyBag
    /\ task = [t \in Tasks |->
                 IF t = 1
                 THEN [pc |-> "recv", op |-> "request", connection_id |-> Some(0),
                       conn |-> Some(0), request |-> None,
                       envelope |-> Some(IntoEnvelope("Auth", 0, None)),
                       mailbox |-> None]
                 ELSE IdleTask]
    /\ last = [op |-> "none", target |-> None, result |-> "none"]
    /\ log = {}
    /\ dispatched = [c \in ConnIds |-> PeerFirstId - 1]
    /\ torn = {}
    /\ panicked = FALSE

\* The ids handed out since InitWrap, the counter having gone round.
AllocatedSinceWrap(c) == next_message_id[c] - U32Max
MayAllocateWrapped(c) == AllocatedSinceWrap(c) < MaxMessages

\* The counter goes round: requests and sends go on on the connection of
\* InitWrap while the peer answers.
NextWrap ==
    \/ \E t \in Tasks, c \in connections : MayAllocateWrapped(c) /\ RequestCall(t, c)
    \/ \E t \in Tasks, c \in connections : MayAllocateWrapped(c) /\ SendCall(t, c)
    \/ \E t \in Tasks : RequestBegin(t)
    \/ \E t \in Tasks : SendBegin(t)
    \/ \E t \in Tasks : RequestInsert(t)
    \/ \E t \in Tasks : WriteBegin(t)
    \/ \E t \in Tasks : WriteFinish(t)
    \/ \E t \in Tasks : RequestRecv(t)
    \/ \E c \in ConnIds : DriverSelect(c)
    \/ \E c \in ConnIds : DriverResponse(c)
    \/ \E c \in ConnIds, e \in PeerResponses : MayPeerSend(c) /\ PeerSend(c, e[1], e[2])

SpecWrap == InitWrap /\ [][NextWrap]_vars

\* ================================================================ claims
\* The request futures alive on connection c: the ids they took.
LiveRequests(c) ==
    {task[t].envelope[1].id : t \in {u \in Tasks : /\ task[u].op = "request"
                                                   /\ task[u].conn = Some(c)}}

\* log::warn!("received RPC response to unknown request {}", responding_to):
\* the entry the read loop adds to the log.  It is recorded under the id of the
\* envelope that caused it, so that two warnings about one request id differ.
UnknownRequestWarning(c, incoming) ==
    [warning |-> "unknown request", connection |-> c, id |-> incoming.id]

\* C1: a response is only ever delivered to the request whose outbound envelope
\* carries the id the response names in responding_to, so a request that
\* resolves successfully resolves with that envelope, whatever the order of the
\* peer's answers; a response that names no live request changes no task, and
\* when the map holds no entry for it, it is logged and dropped.
C1_ResponsesCorrelate ==
    [][/\ \A t \in Tasks :
            task'[t].mailbox # None =>
                task'[t].mailbox[1].responding_to = Some(task'[t].envelope[1].id)
       /\ \A t \in Tasks :
            (task[t].pc = "recv" /\ task'[t].pc = "idle" /\ last'.result = "Ok") =>
                /\ task[t].mailbox # None
                /\ task[t].mailbox[1].responding_to = Some(task[t].envelope[1].id)
       /\ \A c \in ConnIds :
            (/\ driver[c].pc = "response"
             /\ driver'[c].pc = "select"
             /\ ResponseKey(driver[c].incoming[1]) \notin LiveRequests(c)) =>
                /\ task' = task
                /\ ResponseKey(driver[c].incoming[1]) \notin Keys(response_channels[c])
                     => UnknownRequestWarning(c, driver[c].incoming[1]) \in log'
      ]_vars

\* C1 witness: the request with id 1 has resolved successfully while the request
\* with id 0, issued before it, still waits, and a spurious response was dropped.
C1_Witness ==
    /\ last.op = "request" /\ last.result = "Ok"
    /\ \E t \in Tasks : /\ task[t].pc = "recv"
                        /\ task[t].mailbox = None
                        /\ task[t].envelope[1].id = 0
    /\ \E w \in log : w.warning = "unknown request"

\* C2: once disconnect has removed the record of a connection (and no operation
\* still holds the record), the close signal has been dropped, so that the
\* running driver's select returns the close branch and the driver exits.
C2_DisconnectDropsCloseSignal ==
    \A c \in ConnIds :
        (/\ c < next_connection_id
         /\ c \notin adding
         /\ c \notin connections
         /\ \A t \in Tasks : task[t].conn # Some(c)) =>
            CloseSignalled(c)

\* C3: a request that awaits its slot on a connection that disconnect has torn
\* down finds the slot abandoned (its sender dropped), and the abandonment is
\* returned as an error: no future panics.
C3_DisconnectAbandonsSlot ==
    /\ ~panicked
    /\ \A t \in Tasks :
        (/\ task[t].pc = "recv"
         /\ task[t].mailbox = None
         /\ task[t].conn[1] \notin connections) =>
            SenderDropped(t)

\* The first poll of the operation task t has called.
Starts(t) == RequestBegin(t) \/ SendBegin(t) \/ RespondBegin(t)

\* C4: disconnect on an id that has no record returns Ok and changes nothing
\* (so a second disconnect of the same id succeeds); a removed id never gets a
\* record again; and a request, send or respond that starts on an id without a
\* record fails with UnknownConnection, allocating no id and writing nothing.
C4_DisconnectIdempotent ==
    [][/\ \A t \in Tasks, c \in ConnIds :
            (Disconnect(t, c) /\ c \notin connections) =>
                /\ connections' = connections
                /\ last'.result = "Ok"
                /\ panicked' = panicked
       /\ \A t \in Tasks, c \in ConnIds :
            Disconnect(t, c) => c \notin connections'
       /\ \A c \in ConnIds :
            (c < next_connection_id /\ c \notin adding /\ c \notin connections) =>
                c \notin connections'
       /\ \A t \in Tasks :
            (Starts(t) /\ task[t].connection_id[1] \notin connections) =>
                /\ last' = [op |-> task[t].op, target |-> task[t].connection_id,
                            result |-> "UnknownConnection"]
                /\ task'[t] = IdleTask
                /\ next_message_id' = next_message_id
                /\ wire_out' = wire_out
       /\ \A t \in Tasks :
            (task[t].pc = "called" /\ task'[t].pc \notin {"called", "idle"}) =>
                /\ task'[t].conn = task[t].connection_id
                /\ task'[t].conn[1] \in connections
      ]_vars

\* C4 witness: a respond to a request received on connection 0 has failed with
\* UnknownConnection after connection 0 was disconnected.
C4_Witness ==
    /\ last.op = "respond"
    /\ last.result = "UnknownConnection"
    /\ last.target = Some(0)
    /\ 0 < next_connection_id
    /\ 0 \notin connections

\* The slots, in registration order, whose filter accepts the payload and that
\* no earlier accepting slot precedes.
FirstAccepting(payload) ==
    {i \in 1..Len(message_handlers) :
        /\ message_handlers[i].type = payload
        /\ \A j \in 1..(i - 1) : message_handlers[j].type # payload}

\* The number of queued messages that carry envelope id `id` of connection c.
Placements(c, id) ==
    Cardinality({<<i, k>> \in (1..Len(queues)) \X (1..MaxInbound) :
                    /\ k <= Len(queues[i])
                    /\ queues[i][k].id = id
                    /\ queues[i][k].connection_id = c})

\* C5: an inbound envelope without responding_to is put in the queue of one
\* slot at most, the first in registration order whose filter accepts its
\* payload, and is put there once (not at all when that slot's stream was
\* dropped); when no filter accepts it, it is logged as unhandled and no queue
\* changes.
C5_FirstAcceptingSlot ==
    /\ [](\A c \in ConnIds, id \in PeerFirstId..(PeerFirstId + MaxInbound) :
            Placements(c, id) <= 1)
    /\ [](\A i \in 1..Len(queues) : \A k \in 1..Len(queues[i]) :
            i \in FirstAccepting(queues[i][k].body.payload))
    /\ [][\A c \in ConnIds :
            /\ (driver[c].pc = "handlers" /\ driver'[c].pc = "send") =>
                    /\ driver'[c].slot \in FirstAccepting(driver[c].incoming[1].payload)
                    /\ queues' = queues
            /\ (driver[c].pc = "handlers" /\ driver'[c].pc = "select") =>
                    /\ FirstAccepting(driver[c].incoming[1].payload) = {}
                    /\ queues' = queues
                    /\ [warning |-> "unhandled message", connection |-> c,
                        id |-> driver[c].incoming[1].id] \in log'
            /\ (driver[c].pc = "send" /\ driver'[c].pc = "select") =>
                    \E i \in FirstAccepting(driver[c].incoming[1].payload) :
                        /\ Placements(c, driver[c].incoming[1].id) = 0
                        /\ queues' =
                             IF i \in dropped_streams THEN queues
                             ELSE [queues EXCEPT ![i] = Append(@,
                                     [id |-> driver[c].incoming[1].id, connection_id |-> c,
                                      body |-> driver[c].incoming[1]])]
      ]_vars

\* C5 witness: with two slots registered, an envelope sits in the queue of the
\* second while the first is empty, and another envelope was accepted by none.
C5_Witness ==
    /\ Len(queues) = 2
    /\ queues[1] = <<>>
    /\ queues[2] # <<>>
    /\ dropped_streams = {}
    /\ \E w \in log : w.warning = "unhandled message"

\* The operation that holds the writer of c and has written the head of envelope e.
Writing(c, e) ==
    \E t \in Tasks : /\ writer[c] = Some(t)
                     /\ task[t].pc = "write"
                     /\ task[t].conn = Some(c)
                     /\ task[t].envelope = Some(e)

\* The stream written to c is a concatenation of complete frames: every tail
\* follows the head of its own envelope, every head is followed by its tail,
\* unless it is the last part written and its operation still holds the writer,
\* or the write was cut short (the transport failed or the future was dropped).
WellFramed(c) ==
    LET w == wire_out[c] IN
    \A k \in 1..Len(w) :
        /\ w[k].part = "tail" =>
                k > 1 /\ w[k - 1] = [part |-> "head", envelope |-> w[k].envelope]
        /\ w[k].part = "head" =>
                \/ k < Len(w) /\ w[k + 1] = [part |-> "tail", envelope |-> w[k].envelope]
                \/ k = Len(w) /\ Writing(c, w[k].envelope)
                \/ <<c, w[k].envelope.id>> \in torn
        /\ \A j \in 1..Len(w) : (w[j] = w[k]) => j = k

\* C6: whatever request and send operations run concurrently on a connection,
\* the writer is held by one operation at a time, the one in its write; what is
\* on the transport is a concatenation of whole frames, each envelope once; and
\* an operation that finishes its write has put its whole frame on the wire
\* with nothing in between.
C6_FramesNotInterleaved ==
    /\ [](\A c \in ConnIds : WellFramed(c))
    /\ [](\A c \in ConnIds, t \in Tasks :
            (task[t].pc = "write" /\ task[t].conn = Some(c)) <=> writer[c] = Some(t))
    /\ [][\A t \in Tasks :
            (task[t].pc = "write" /\ task'[t].pc # "write" /\ torn' = torn) =>
                LET c == task[t].conn[1]
                    n == Len(wire_out'[c]) IN
                /\ n >= 2
                /\ SubSeq(wire_out'[c], n - 1, n) = Frame(task[t].envelope[1])
      ]_vars

\* C6 witness: two whole frames on connection 0, of a request and a send, the
\* one with the higher id first.
C6_Witness ==
    /\ torn = {}
    /\ Len(wire_out[0]) = 4
    /\ wire_out[0][1].envelope.id = 1
    /\ wire_out[0][3].envelope.id = 0
    /\ wire_out[0][1].envelope.payload # wire_out[0][3].envelope.payload

\* The envelope ids that parts on the wire of c carry.
WireIds(c) == {wire_out[c][k].envelope.id : k \in 1..Len(wire_out[c])}

\* C7: respond writes on the connection the request came in on; its envelope
\* answers the inbound request (responding_to is the id of the envelope the
\* peer sent, whether or not the request's body was taken) and carries an id
\* taken from that connection's counter at the first poll, which no other
\* envelope of the connection carries.
C7_RespondAnswersRequest ==
    /\ [](\A t \in Tasks :
            (task[t].op = "respond" /\ task[t].envelope # None) =>
                LET r == task[t].request[1]
                    e == task[t].envelope[1]
                    c == r.connection_id IN
                /\ task[t].conn = Some(c)
                /\ e.responding_to = Some(r.id)
                /\ r.id \in PeerFirstId..(peer_next_id[c] - 1)
                /\ e.payload = Response(r.type)
                /\ e.id < next_message_id[c]
                /\ \A u \in Tasks \ {t} :
                        task[u].conn = Some(c) => task[u].envelope[1].id # e.id
                /\ e.id \in WireIds(c) => task[t].pc = "write")
    /\ [][\A t \in Tasks :
            /\ (task[t].pc = "idle" /\ task'[t].op = "respond") =>
                    /\ BagIn(task'[t].request[1], received)
                    /\ task'[t].connection_id = Some(task'[t].request[1].connection_id)
                    /\ task'[t].envelope = None
                    /\ next_message_id' = next_message_id
            /\ (task[t].op = "respond" /\ task[t].pc = "called" /\ task'[t].pc = "lock") =>
                    LET c == task[t].request[1].connection_id IN
                    /\ task'[t].envelope[1].id = next_message_id[c]
                    /\ next_message_id' = [next_message_id EXCEPT ![c] = @ + 1]
            /\ (task[t].op = "respond" /\ task[t].pc = "write" /\ task'[t].pc = "idle"
                    /\ last'.result = "Ok") =>
                    LET c == task[t].request[1].connection_id
                        n == Len(wire_out'[c]) IN
                    /\ n >= 2
                    /\ SubSeq(wire_out'[c], n - 1, n) = Frame(task[t].envelope[1])
                    /\ \A d \in ConnIds \ {c} : wire_out'[d] = wire_out[d]
      ]_vars

\* C7 witness: the response to the first request of connection 0 is on its wire
\* and a respond to the second request of connection 1, whose body was taken,
\* is in its write.
C7_Witness ==
    /\ wire_out[0] = Frame(IntoEnvelope("AuthResponse", 0, Some(PeerFirstId)))
    /\ \E t \in Tasks :
        /\ task[t].op = "respond"
        /\ task[t].pc = "write"
        /\ task[t].conn = Some(1)
        /\ task[t].request[1].body = None
        /\ task[t].envelope[1].responding_to = Some(PeerFirstId + 1)

\* C8: dropping a request future after its slot was inserted releases the
\* writer if the future held it and touches no other future or the id counter,
\* so the writer is never held by a future that is gone and later requests can
\* write; the entry left behind has no receiver, so a reply that arrives for it
\* is delivered to no request; an entry that has a receiver is keyed by the id
\* of the request that holds it.
C8_DroppedRequestHarmless ==
    /\ [][/\ \A t \in Tasks :
                (/\ task[t].op = "request"
                 /\ task[t].pc \in {"lock", "write", "recv"}
                 /\ task'[t] = IdleTask
                 /\ last'.result = "Dropped") =>
                    LET c == task[t].conn[1] IN
                    /\ writer'[c] # Some(t)
                    /\ writer[c] # Some(t) => writer'[c] = writer[c]
                    /\ \A u \in Tasks \ {t} : task'[u] = task[u]
                    /\ next_message_id' = next_message_id
                    /\ \A e \in response_channels'[c] : e.sender # t
          /\ \A c \in ConnIds :
                (driver[c].pc = "response" /\ driver'[c].pc = "select") =>
                    \A t \in Tasks :
                        task'[t] # task[t] =>
                            /\ task[t].op = "request"
                            /\ task[t].conn = Some(c)
                            /\ Some(task[t].envelope[1].id) = driver[c].incoming[1].responding_to
                            /\ task'[t] = [task[t] EXCEPT !.mailbox = driver[c].incoming]
         ]_vars
    /\ [](\A c \in ConnIds : writer[c] # None => task[writer[c][1]].conn = Some(c))
    /\ [](\A c \in ConnIds : \A e \in response_channels[c] :
            /\ e.key < next_message_id[c]
            /\ e.sender # NoReceiver =>
                    /\ task[e.sender].op = "request"
                    /\ task[e.sender].conn = Some(c)
                    /\ task[e.sender].envelope[1].id = e.key
            /\ Cardinality({t \in Tasks : /\ task[t].conn = Some(c)
                                          /\ task[t].envelope[1].id = e.key}) <= 1)

\* C8 witness: the request with id 0 was dropped in the middle of its write; a
\* later request on the connection has resolved, and the reply to the dropped
\* request has arrived and taken its entry out of the map.
C8_Witness ==
    /\ last = [op |-> "request", target |-> Some(0), result |-> "Ok"]
    /\ torn = {<<0, 0>>}
    /\ ~stream_closed[0]
    /\ response_channels[0] = {}
    /\ dispatched[0] = PeerFirstId + 1

\* Request futures of connection c with id r that have passed the insert and
\* have no response yet.
Awaiting(c, r) ==
    {t \in Tasks : /\ task[t].op = "request"
                   /\ task[t].conn = Some(c)
                   /\ task[t].envelope[1].id = r
                   /\ task[t].pc \in {"lock", "write", "recv"}
                   /\ task[t].mailbox = None}

\* C9: the slot of a request is in response_channels when the first part of its
\* envelope goes out (or a response was already delivered into it) and stays
\* there until the response is delivered; so the
\* read loop never logs a response as unknown while the request it names is
\* written or awaited without a response.
C9_SlotBeforeWrite ==
    /\ [](\A c \in ConnIds, r \in 0..MaxMessages :
            Awaiting(c, r) # {} => r \in Keys(response_channels[c]))
    /\ [][/\ \A t \in Tasks :
                (task[t].op = "request" /\ task[t].pc # "write" /\ task'[t].pc = "write") =>
                    /\ \/ task[t].envelope[1].id \in Keys(response_channels[task[t].conn[1]])
                       \/ task[t].mailbox # None
                    /\ \A k \in 1..Len(wire_out[task[t].conn[1]]) :
                          wire_out[task[t].conn[1]][k].envelope.id # task[t].envelope[1].id
          /\ \A c \in ConnIds :
                (/\ driver[c].pc = "response"
                 /\ UnknownRequestWarning(c, driver[c].incoming[1]) \in log' \ log) =>
                    Awaiting(c, ResponseKey(driver[c].incoming[1])) = {}
         ]_vars

\* C9 witness: a request is in its write, its slot is in the map, and the
\* response to it is already on the inbound stream.
C9_Witness ==
    \E t \in Tasks :
        /\ task[t].op = "request"
        /\ task[t].pc = "write"
        /\ task[t].conn = Some(0)
        /\ wire_in[0] # <<>>
        /\ Head(wire_in[0]).responding_to = Some(task[t].envelope[1].id)
        /\ task[t].envelope[1].id \in Keys(response_channels[0])

\* The ids of a sequence of envelopes or messages increase strictly.  The peer
\* numbers its envelopes in the order it writes them, so this is the order in
\* which the read loop reads them.
InReadOrder(s) == \A j, k \in 1..Len(s) : j < k => s[j].id < s[k].id

\* The messages of queue i that came in on connection c.
FromConnection(i, c) == SelectSeq(queues[i], LAMBDA m : m.connection_id = c)

\* C10: on one connection, the read loop takes the envelopes in the order of
\* the stream, one at a time, and has dispatched the one it holds (queued it,
\* delivered it to its slot, or logged it) before it reads the next; so every
\* handler queue holds its envelopes in the order they were read, and slots
\* receive responses in that order.
C10_DispatchInReadOrder ==
    /\ [](\A c \in ConnIds :
            /\ InReadOrder(wire_in[c])
            /\ driver[c].incoming # None =>
                    /\ driver[c].incoming[1].id = dispatched[c] + 1
                    /\ \A k \in 1..Len(wire_in[c]) :
                            driver[c].incoming[1].id < wire_in[c][k].id)
    /\ [](\A i \in 1..Len(queues), c \in ConnIds : InReadOrder(FromConnection(i, c)))
    /\ [][/\ \A c \in ConnIds :
                /\ (driver[c].incoming = None /\ driver'[c].incoming # None) =>
                        /\ driver'[c].incoming = Some(Head(wire_in[c]))
                        /\ wire_in'[c] = Tail(wire_in[c])
                        /\ dispatched[c] = Head(wire_in[c]).id - 1
                /\ dispatched'[c] # dispatched[c] =>
                        /\ driver[c].incoming # None
                        /\ dispatched'[c] = driver[c].incoming[1].id
                        /\ driver'[c].incoming = None
          /\ \A i \in 1..Len(queues) :
                Len(queues'[i]) > Len(queues[i]) =>
                    \E c \in ConnIds :
                        /\ driver[c].incoming # None
                        /\ queues'[i] = Append(queues[i],
                              [id |-> driver[c].incoming[1].id, connection_id |-> c,
                               body |-> driver[c].incoming[1]])
                        /\ dispatched'[c] = driver[c].incoming[1].id
          /\ \A t \in Tasks :
                (task'[t].mailbox # None /\ task'[t].mailbox # task[t].mailbox) =>
                    \E c \in ConnIds :
                        /\ task'[t].mailbox = driver[c].incoming
                        /\ task[t].conn = Some(c)
                        /\ dispatched'[c] = driver[c].incoming[1].id
         ]_vars

\* C10 witness: the queue of the one slot holds the first two envelopes of
\* connection 0 in the order the peer wrote them.
C10_Witness ==
    /\ Len(queues) = 1
    /\ Len(queues[1]) = 2
    /\ queues[1][1].id = PeerFirstId
    /\ queues[1][2].id = PeerFirstId + 1
    /\ dispatched[0] = PeerFirstId + 1

\* C11: when the transport refuses the write of a request's envelope, the
\* request returns the transport's error (broken pipe) at once: it does not go
\* on to await its slot, and nothing more of it goes on the wire.  A request
\* that awaits its slot has its whole frame on the wire.
C11_WriteErrorReturned ==
    /\ [][\A t \in Tasks :
            (/\ task[t].op = "request"
             /\ task[t].pc \in {"lock", "write"}
             /\ stream_closed[task[t].conn[1]]
             /\ task'[t].pc # task[t].pc
             /\ last'.result # "Dropped") =>
                /\ task'[t] = IdleTask
                /\ last' = [op |-> "request", target |-> task[t].conn,
                            result |-> "BrokenPipe"]
                /\ wire_out' = wire_out
         ]_vars
    /\ [](\A t \in Tasks :
            (task[t].op = "request" /\ task[t].pc = "recv") =>
                \E k \in 1..Len(wire_out[task[t].conn[1]]) :
                    wire_out[task[t].conn[1]][k] =
                        [part |-> "tail", envelope |-> task[t].envelope[1]])
    /\ [](last.result = "BrokenPipe" => stream_closed[last.target[1]])

\* C11 witness: the stream of connection 0 was closed before anything was
\* written, and a request on it has returned the broken pipe.
C11_Witness ==
    /\ last = [op |-> "request", target |-> Some(0), result |-> "BrokenPipe"]
    /\ stream_closed[0]
    /\ wire_out[0] = <<>>
    /\ \A t \in Tasks : task[t].pc = "idle"

\* The types of the slots appended to message_handlers so far.
SlotTypes == {message_handlers[i].type : i \in 1..Len(message_handlers)}

\* A registration of T takes its first step.
Registers(T) == AddRequestHandler(T) \/ AddMessageHandler(T)

\* C12: in any interleaving of add_request_handler and add_message_handler, a
\* type has at most one slot; the slots appended or about to be appended are
\* of distinct types, all in handler_types; a type enters handler_types once;
\* and a registration of a type already in the set panics and appends nothing,
\* before and after other registrations have panicked or were dropped.
C12_OneSlotPerType ==
    /\ [](\A i, j \in 1..Len(message_handlers) :
            message_handlers[i].type = message_handlers[j].type => i = j)
    /\ [](/\ SlotTypes \cup {h.type : h \in pending_handlers} \subseteq handler_types
          /\ SlotTypes \cap {h.type : h \in pending_handlers} = {}
          /\ Len(message_handlers) + Cardinality(pending_handlers)
                <= Cardinality(handler_types)
          /\ Len(queues) = Len(message_handlers))
    /\ [][/\ \A T \in Variants :
                (T \in handler_types /\ Registers(T)) =>
                    /\ panicked'
                    /\ message_handlers' = message_handlers
                    /\ pending_handlers' = pending_handlers
                    /\ handler_types' = handler_types
          /\ handler_types' # handler_types =>
                \E T \in Variants \ handler_types :
                    /\ handler_types' = handler_types \cup {T}
                    /\ panicked' = panicked
          /\ message_handlers' # message_handlers =>
                \E h \in pending_handlers :
                    /\ h.type \notin SlotTypes
                    /\ message_handlers' = Append(message_handlers, h)
         ]_vars

\* C12 witness: a duplicate registration has panicked, and two types have their
\* slots.
C12_Witness ==
    /\ panicked
    /\ Len(message_handlers) = 2
    /\ pending_handlers = {}

\* C13: once the callers have released their last handle to the client (and
\* poll no operation of their own), every connection record is dropped and its
\* close signal has fired, so that the drivers exit; and a request that still
\* awaits its slot finds it abandoned.
C13_ClientDropClosesAll ==
    handles = 0 =>
        /\ (\A t \in Tasks : task[t].pc = "idle") =>
                \A c \in ConnIds : c < next_connection_id => CloseSignalled(c)
        /\ \A t \in Tasks :
                (task[t].pc = "recv" /\ task[t].mailbox = None) => SenderDropped(t)

\* C14: the read loop of a connection ends when its stream has reached a
\* terminal condition (the step that reads the error of a closed, drained
\* stream leaves the loop) even though the connection is still in the map; and
\* a driver that has exited had its stream closed or its connection removed.
C14_ReadLoopEndsWithStream ==
    /\ [][\A c \in ConnIds :
            (/\ driver[c].pc = "select"
             /\ stream_closed[c]
             /\ wire_in[c] = <<>>
             /\ log' # log) =>
                driver'[c].pc = "exited"
         ]_vars
    /\ [](\A c \in ConnIds :
            driver[c].pc = "exited" => (stream_closed[c] \/ c \notin connections))

\* C15: every key of a connection's response_channels is the id of exactly one
\* request future that has inserted its slot and has not finished: a request
\* that was dropped or whose write failed leaves no entry behind.
C15_EntriesHaveAwaiters ==
    \A c \in ConnIds : \A e \in response_channels[c] :
        Cardinality({t \in Tasks : /\ task[t].op = "request"
                                   /\ task[t].conn = Some(c)
                                   /\ task[t].envelope[1].id = e.key
                                   /\ task[t].pc \in {"lock", "write", "recv"}}) = 1

\* C16: a slot is completed at most once.  The response branch takes the entry
\* for responding_to out of the map in the step that delivers, fills one empty
\* slot at most, and a slot once filled keeps its envelope; a response whose
\* responding_to has no entry (a second response to the same id among them) is
\* logged and changes no request.
C16_SlotCompletedOnce ==
    [][/\ \A t \in Tasks :
            (task[t].mailbox # None /\ task'[t].pc # "idle") =>
                task'[t].mailbox = task[t].mailbox
       /\ \A c \in ConnIds :
            (driver[c].pc = "response" /\ driver'[c].pc = "select") =>
                LET incoming == driver[c].incoming[1]
                    key == incoming.responding_to[1] IN
                /\ key \notin Keys(response_channels'[c])
                /\ \A e \in response_channels[c] :
                        e.key # key => e \in response_channels'[c]
                /\ Cardinality({t \in Tasks : task'[t] # task[t]}) <= 1
                /\ \A t \in Tasks :
                        task'[t] # task[t] =>
                            /\ task[t].mailbox = None
                            /\ key \in Keys(response_channels[c])
                /\ key \notin Keys(response_channels[c]) =>
                        /\ task' = task
                        /\ UnknownRequestWarning(c, incoming) \in log'
      ]_vars

\* C16 witness: a request holds the first response to its id while the read
\* loop is about to dispatch a second response to the same id.
C16_Witness ==
    \E t \in Tasks :
        /\ task[t].op = "request"
        /\ task[t].pc = "recv"
        /\ task[t].conn = Some(0)
        /\ task[t].mailbox # None
        /\ task[t].mailbox[1].id = PeerFirstId
        /\ driver[0].pc = "response"
        /\ driver[0].incoming[1].id = PeerFirstId + 1
        /\ driver[0].incoming[1].responding_to = Some(task[t].envelope[1].id)

\* The positions of wire_out[c] that start a frame.
Heads(c) == {k \in 1..Len(wire_out[c]) : wire_out[c][k].part = "head"}

\* C17: whatever request, send and respond operations interleave on a
\* connection, no two envelopes written on it carry the same id, over the whole
\* life of the connection record, the 32-bit counter going round included.
C17_IdsUnique ==
    \A c \in ConnIds : \A j, k \in Heads(c) :
        wire_out[c][j].envelope.id = wire_out[c][k].envelope.id => j = k

\* C18: the ids on the wire of a connection increase: an envelope written
\* later through the writer lock carries a larger id than every envelope
\* written before it.
C18_WireIdsIncrease ==
    \A c \in ConnIds : \A j, k \in Heads(c) :
        j < k => wire_out[c][j].envelope.id < wire_out[c][k].envelope.id

\* C19: a handler queue never holds more than 256 messages.  While the queue of
\* the accepting slot is full and its stream exists, the driver stays in its
\* send with the envelope it holds and reads nothing more from the stream; when
\* it leaves the send and the stream exists, the envelope is the last message
\* of that queue (when the stream was dropped, the message goes nowhere).
C19_QueueBackpressure ==
    /\ [](\A i \in 1..Len(queues) : Len(queues[i]) <= HandlerQueueCapacity)
    /\ [][\A c \in ConnIds :
            /\ (/\ driver[c].pc = "send"
                /\ driver[c].slot \notin dropped_streams
                /\ Len(queues[driver[c].slot]) >= HandlerQueueCapacity) =>
                    /\ driver'[c] = driver[c]
                    /\ \/ wire_in'[c] = wire_in[c]
                       \/ \E e \in {wire_in'[c][Len(wire_in'[c])]} :
                                wire_in'[c] = Append(wire_in[c], e)
                    /\ dispatched'[c] = dispatched[c]
            /\ (driver[c].pc = "send" /\ driver'[c].pc # "send") =>
                    IF driver[c].slot \in dropped_streams
                    THEN queues' = queues
                    ELSE LET q == queues'[driver[c].slot] IN
                         /\ Len(q) = Len(queues[driver[c].slot]) + 1
                         /\ q[Len(q)].body = driver[c].incoming[1]
         ]_vars

\* C19 witness: the queue of the one slot is full, its stream exists, the
\* driver waits in its send and the peer's next envelope waits on the stream.
C19_Witness ==
    /\ Len(queues) = 1
    /\ Len(queues[1]) = HandlerQueueCapacity
    /\ dropped_streams = {}
    /\ driver[0].pc = "send"
    /\ wire_in[0] # <<>>

\* log::warn!("received invalid RPC message: {}", error)
InvalidMessageWarning(c) ==
    [warning |-> "invalid message", connection |-> c, id |-> 0]

\* C20: a read error does not end the read loop.  The step that reads a frame
\* that does not decode logs it, takes it off the stream and leaves the driver
\* in its loop with queues and dispatch position untouched; the envelopes that
\* decode are dispatched one after the other with none skipped or repeated, as
\* they are without the error.
C20_ReadErrorContinues ==
    /\ [][\A c \in ConnIds :
            (/\ driver[c].pc = "select"
             /\ wire_in[c] # <<>>
             /\ ~Decodes(Head(wire_in[c]))
             /\ wire_in'[c] = Tail(wire_in[c])) =>
                /\ driver'[c] = driver[c]
                /\ InvalidMessageWarning(c) \in log'
                /\ queues' = queues
                /\ dispatched' = dispatched
         ]_vars
    /\ [](\A c \in ConnIds :
            /\ driver[c].pc # "exited"
            /\ driver[c].incoming # None =>
                    /\ Decodes(driver[c].incoming[1])
                    /\ driver[c].incoming[1].id = dispatched[c] + 1
            /\ dispatched[c] < peer_next_id[c])
    /\ [](\A i \in 1..Len(queues) : \A k \in 1..Len(queues[i]) :
            Decodes(queues[i][k].body))
    /\ [](\A i \in 1..Len(queues), c \in ConnIds : InReadOrder(FromConnection(i, c)))

\* C20 witness: the driver of connection 0 has logged a read error, has
\* dispatched one envelope and holds the next one for the handler's queue.
C20_Witness ==
    /\ InvalidMessageWarning(0) \in log
    /\ driver[0].pc = "send"
    /\ driver[0].incoming[1].id = PeerFirstId + 1
    /\ Len(queues[1]) = 1

\* A driver waits in its send for room in a full handler queue whose stream
\* exists.
BlockedInSend(c) ==
    /\ driver[c].pc = "send"
    /\ driver[c].slot \notin dropped_streams
    /\ ~QueueHasRoom(queues[driver[c].slot])

\* C21: a registration of a new type is never held up by a driver: while a
\* driver waits to send into a full handler queue, a registration that has
\* inserted its type and awaits message_handlers.write() can take the lock
\* and push its slot.
C21_RegistrationNotBlocked ==
    \A h \in pending_handlers :
        (\E c \in ConnIds : BlockedInSend(c)) => ENABLED PushHandler(h)

====
